---- MODULE Spec2Model ----
(***************************************************************************)
(* Model of cmd/main.go of opentelemetry-infinity: the run routine `Run`   *)
(* (configuration resolution, logger construction, service construction,   *)
(* signal watcher goroutine, Start, wait on the done channel) and          *)
(* `initConfig`.                                                           *)
(*                                                                         *)
(* The process is modelled from the entry of Run, with the command-line    *)
(* flags already parsed into the globals Debug, ServerHost and ServerPort. *)
(* Termination signals are modelled from signal.Notify on (line 80).       *)
(* The service (otlpinf.New, Start, Stop) is an opaque collaborator: New   *)
(* and Start may fail, Start may keep running, Stop may take any time, and *)
(* the service may call the cancel function handed to Start (line 96).     *)
(***************************************************************************)
EXTENDS Integers, Sequences, FiniteSets, TLC

VARIABLES
    env,          \* process environment: key -> string, "" when unset
    flagSet,      \* key -> whether the flag was given on the command line
    Debug,        \* main.go:25  global bound to --debug
    ServerHost,   \* main.go:26  global bound to --server_host
    ServerPort,   \* main.go:27  global bound to --server_port
    viperCfg,     \* the global viper's config map after initConfig
    config,       \* main.go:35  the config.Config handed to otlpinf.New
    level,        \* main.go:49  atomicLevel ("none" before the logger exists)
    synced,       \* whether logger.Sync() has run (main.go:63-65)
    pc,           \* position of the main routine in Run
    wpc,          \* position of the signal watcher goroutine (main.go:78-93)
    sigs,         \* number of signals buffered in sigs (capacity 1)
    delivered,    \* termination signals delivered after signal.Notify
    cancelled,    \* rootCtx is cancelled
    svcCancelled, \* the service has called cancelFunc
    done,         \* number of values buffered in done (capacity 1)
    exited,       \* the process has exited
    exitCode,     \* its exit code (meaningful once exited)
    startCtxCancelled, \* rootCtx was already cancelled when Start was invoked
    sigWhileRunning,   \* a signal was delivered while Start was invoked and had not failed
    hist          \* the lifecycle events so far, in order

vars == <<env, flagSet, Debug, ServerHost, ServerPort, viperCfg, config, level,
          synced, pc, wpc, sigs, delivered, cancelled, svcCancelled, done,
          exited, exitCode, startCtxCancelled, sigWhileRunning, hist>>

cfgVars == <<env, flagSet, Debug, ServerHost, ServerPort, viperCfg, config, level>>

(***************************************************************************)
(* Bounds of the model.                                                    *)
(***************************************************************************)
MaxSignals == 2

(***************************************************************************)
(* Values held by viper: a default keeps its Go type, a value read from    *)
(* the environment is a string.                                            *)
(***************************************************************************)
BoolV(b) == [kind |-> "bool", b |-> b, s |-> "", n |-> 0]
StrV(s) == [kind |-> "string", b |-> FALSE, s |-> s, n |-> 0]
IntV(n) == [kind |-> "int", b |-> FALSE, s |-> "", n |-> n]

Keys == {"debug", "server_host", "server_port"}

DefaultDebug == FALSE
DefaultServerHost == "localhost"
DefaultServerPort == 10222

\* initConfig: v.SetDefault(...) (main.go:111-113)
Defaults ==
    [debug |-> BoolV(DefaultDebug),
     server_host |-> StrV(DefaultServerHost),
     server_port |-> IntV(DefaultServerPort)]

\* viper.Get under AutomaticEnv with the "." -> "_" replacer (main.go:107-109):
\* a non-empty environment variable wins over the default, as a string.
ViperGet(e, k) == IF e[k] # "" THEN StrV(e[k]) ELSE Defaults[k]

\* v.AllSettings() (main.go:114)
AllSettings(e) == [k \in Keys |-> ViperGet(e, k)]

(***************************************************************************)
(* viper.Unmarshal (main.go:41): weakly typed decoding into the struct.    *)
(***************************************************************************)
TrueStrings == {"1", "t", "T", "TRUE", "true", "True"}
FalseStrings == {"0", "f", "F", "FALSE", "false", "False"}

\* strconv.ParseUint on the decimal strings the model uses
DecimalValue == ("9000" :> 9000) @@ ("8080" :> 8080) @@ ("0" :> 0)

DecodeBool(v) ==
    CASE v.kind = "bool" -> [err |-> FALSE, val |-> v.b]
      [] v.kind = "int" -> [err |-> FALSE, val |-> (v.n # 0)]
      [] OTHER -> IF v.s \in TrueStrings THEN [err |-> FALSE, val |-> TRUE]
                  ELSE IF v.s \in FalseStrings \cup {""} THEN [err |-> FALSE, val |-> FALSE]
                  ELSE [err |-> TRUE, val |-> FALSE]

DecodeUint(v) ==
    CASE v.kind = "int" -> [err |-> v.n < 0, val |-> IF v.n < 0 THEN 0 ELSE v.n]
      [] v.kind = "bool" -> [err |-> FALSE, val |-> IF v.b THEN 1 ELSE 0]
      [] OTHER -> IF v.s \in DOMAIN DecimalValue
                  THEN [err |-> FALSE, val |-> DecimalValue[v.s]]
                  ELSE [err |-> TRUE, val |-> 0]

DecodeString(v) ==
    CASE v.kind = "string" -> [err |-> FALSE, val |-> v.s]
      [] v.kind = "bool" -> [err |-> FALSE, val |-> IF v.b THEN "1" ELSE "0"]
      [] OTHER -> [err |-> FALSE, val |-> "number"]

\* The keys of the merged settings that config.Config binds to its fields
\* (the struct lives in package config).
ConfigFields == {"debug", "server_host", "server_port"}

\* viper.Unmarshal(&config): every bound key present in the settings
\* overwrites the field; the first decoding error fails the whole call.
Unmarshal(c, settings) ==
    LET d == DecodeBool(settings["debug"])
        h == DecodeString(settings["server_host"])
        p == DecodeUint(settings["server_port"])
        bd == "debug" \in ConfigFields
        bh == "server_host" \in ConfigFields
        bp == "server_port" \in ConfigFields
    IN [err |-> (bd /\ d.err) \/ (bh /\ h.err) \/ (bp /\ p.err),
        config |-> [Debug |-> IF bd THEN d.val ELSE c.Debug,
                    ServerHost |-> IF bh THEN h.val ELSE c.ServerHost,
                    ServerPort |-> IF bp THEN p.val ELSE c.ServerPort]]

(***************************************************************************)
(* Inputs of a process run.                                                *)
(***************************************************************************)
EnvDebugValues == {"", "true", "maybe"}
EnvHostValues == {"", "example.org"}
EnvPortValues == {"", "9000", "abc"}

FlagDebugValues == {TRUE}
FlagHostValues == {"0.0.0.0"}
FlagPortValues == {8080}

NoConfig == [Debug |-> FALSE, ServerHost |-> "", ServerPort |-> 0]

Init ==
    /\ env \in [debug : EnvDebugValues, server_host : EnvHostValues,
                server_port : EnvPortValues]
    /\ flagSet \in [debug : BOOLEAN, server_host : BOOLEAN, server_port : BOOLEAN]
    \* main.go:130-132: an absent flag leaves the flag's default in the global
    /\ Debug \in (IF flagSet.debug THEN FlagDebugValues ELSE {DefaultDebug})
    /\ ServerHost \in (IF flagSet.server_host THEN FlagHostValues ELSE {DefaultServerHost})
    /\ ServerPort \in (IF flagSet.server_port THEN FlagPortValues ELSE {DefaultServerPort})
    /\ viperCfg = [k \in {} |-> 0]
    /\ config = NoConfig
    /\ level = "none"
    /\ synced = FALSE
    /\ pc = "initConfig"
    /\ wpc = "none"
    /\ sigs = 0
    /\ delivered = 0
    /\ cancelled = FALSE
    /\ svcCancelled = FALSE
    /\ done = 0
    /\ exited = FALSE
    /\ exitCode = 0
    /\ startCtxCancelled = FALSE
    /\ sigWhileRunning = FALSE
    /\ hist = <<>>

\* os.Exit(code): the whole process, watcher included, stops there.
Exit(code) ==
    /\ exited' = TRUE
    /\ exitCode' = code
    /\ hist' = Append(hist, IF code = 0 THEN "Exit0" ELSE "Exit1")

(***************************************************************************)
(* The main routine.                                                       *)
(***************************************************************************)
\* main.go:32, 105-115
InitConfig ==
    /\ ~exited /\ pc = "initConfig"
    /\ viperCfg' = AllSettings(env)
    /\ pc' = "configure"
    /\ UNCHANGED <<env, flagSet, Debug, ServerHost, ServerPort, config, level,
                   synced, wpc, sigs, delivered, cancelled, svcCancelled, done,
                   exited, exitCode, startCtxCancelled, sigWhileRunning, hist>>

\* main.go:35-45
Configure ==
    /\ ~exited /\ pc = "configure"
    /\ LET fromFlags == [Debug |-> Debug, ServerHost |-> ServerHost,
                         ServerPort |-> ServerPort]
           r == Unmarshal(fromFlags, viperCfg)
       IN IF r.err
          THEN /\ pc' = "configErr"
               /\ Exit(1)
               /\ UNCHANGED config
          ELSE /\ pc' = "logger"
               /\ config' = r.config
               /\ UNCHANGED <<exited, exitCode, hist>>
    /\ UNCHANGED <<env, flagSet, Debug, ServerHost, ServerPort, viperCfg, level,
                   synced, wpc, sigs, delivered, cancelled, svcCancelled, done,
                   startCtxCancelled, sigWhileRunning>>

\* main.go:48-65
NewLogger ==
    /\ ~exited /\ pc = "logger"
    /\ level' = IF Debug THEN "debug" ELSE "info"
    /\ pc' = "new"
    /\ UNCHANGED <<env, flagSet, Debug, ServerHost, ServerPort, viperCfg, config,
                   synced, wpc, sigs, delivered, cancelled, svcCancelled, done,
                   exited, exitCode, startCtxCancelled, sigWhileRunning, hist>>

\* main.go:68 with err == nil
NewOk ==
    /\ ~exited /\ pc = "new"
    /\ pc' = "signals"
    /\ UNCHANGED <<cfgVars, synced, wpc, sigs, delivered, cancelled, svcCancelled,
                   done, exited, exitCode, startCtxCancelled, sigWhileRunning, hist>>

\* main.go:68-72 with err != nil
NewFails ==
    /\ ~exited /\ pc = "new"
    /\ pc' = "newErr"
    /\ Exit(1)
    /\ UNCHANGED <<cfgVars, synced, wpc, sigs, delivered, cancelled, svcCancelled,
                   done, startCtxCancelled, sigWhileRunning>>

\* main.go:75-78: done, rootCtx and the watcher goroutine are created
Launch ==
    /\ ~exited /\ pc = "signals"
    /\ wpc' = "notify"
    /\ pc' = "start"
    /\ UNCHANGED <<cfgVars, synced, sigs, delivered, cancelled, svcCancelled,
                   done, exited, exitCode, startCtxCancelled, sigWhileRunning, hist>>

\* main.go:96: a.Start(rootCtx, cancelFunc) is entered
StartInvoke ==
    /\ ~exited /\ pc = "start"
    /\ pc' = "inStart"
    /\ startCtxCancelled' = cancelled
    /\ hist' = Append(hist, "Start")
    /\ UNCHANGED <<cfgVars, synced, wpc, sigs, delivered, cancelled, svcCancelled,
                   done, exited, exitCode, sigWhileRunning>>

\* main.go:96-97: Start returns nil
StartReturnsNil ==
    /\ ~exited /\ pc = "inStart"
    /\ pc' = "wait"
    /\ UNCHANGED <<cfgVars, synced, wpc, sigs, delivered, cancelled, svcCancelled,
                   done, exited, exitCode, startCtxCancelled, sigWhileRunning, hist>>

\* main.go:96-98: Start returns an error
StartReturnsErr ==
    /\ ~exited /\ pc = "inStart"
    /\ pc' = "startErr"
    /\ hist' = Append(hist, "StartErr")
    /\ UNCHANGED <<cfgVars, synced, wpc, sigs, delivered, cancelled, svcCancelled,
                   done, exited, exitCode, startCtxCancelled, sigWhileRunning>>

\* the Start error is logged but the main routine goes on to wait for done
StartErrFallsThrough ==
    /\ ~exited /\ pc = "startErr"
    /\ pc' = "wait"
    /\ UNCHANGED <<cfgVars, synced, wpc, sigs, delivered, cancelled, svcCancelled,
                   done, exited, exitCode, startCtxCancelled, sigWhileRunning, hist>>

\* main.go:98-99
ExitStartErr ==
    /\ ~exited /\ pc = "startErr"
    /\ pc' = "startErrExit"
    /\ Exit(1)
    /\ UNCHANGED <<cfgVars, synced, wpc, sigs, delivered, cancelled, svcCancelled,
                   done, startCtxCancelled, sigWhileRunning>>

\* main.go:102
ReadDone ==
    /\ ~exited /\ pc = "wait"
    /\ done > 0
    /\ done' = done - 1
    /\ pc' = "deferred"
    /\ hist' = Append(hist, "DoneRead")
    /\ UNCHANGED <<cfgVars, synced, wpc, sigs, delivered, cancelled, svcCancelled,
                   exited, exitCode, startCtxCancelled, sigWhileRunning>>

\* main.go:63-65, run when Run returns at line 103
DeferredSync ==
    /\ ~exited /\ pc = "deferred"
    /\ synced' = TRUE
    /\ pc' = "return"
    /\ UNCHANGED <<cfgVars, wpc, sigs, delivered, cancelled, svcCancelled, done,
                   exited, exitCode, startCtxCancelled, sigWhileRunning, hist>>

\* main.go:135-136: Execute and main return
MainReturn ==
    /\ ~exited /\ pc = "return"
    /\ pc' = "returned"
    /\ Exit(0)
    /\ UNCHANGED <<cfgVars, synced, wpc, sigs, delivered, cancelled, svcCancelled,
                   done, startCtxCancelled, sigWhileRunning>>

(***************************************************************************)
(* The signal watcher goroutine.                                           *)
(***************************************************************************)
\* main.go:79-80
WatcherNotify ==
    /\ ~exited /\ wpc = "notify"
    /\ wpc' = "select"
    /\ UNCHANGED <<cfgVars, synced, pc, sigs, delivered, cancelled, svcCancelled,
                   done, exited, exitCode, startCtxCancelled, sigWhileRunning, hist>>

\* A termination signal reaches the process after signal.Notify: the runtime
\* sends it to sigs without blocking and drops it when the buffer is full.
Signal ==
    /\ ~exited /\ wpc \notin {"none", "notify"}
    /\ delivered < MaxSignals
    /\ delivered' = delivered + 1
    /\ sigs' = 1
    /\ sigWhileRunning' = (sigWhileRunning \/ pc \in {"inStart", "wait"})
    /\ UNCHANGED <<cfgVars, synced, pc, wpc, cancelled, svcCancelled, done,
                   exited, exitCode, startCtxCancelled, hist>>

\* the watcher cancels the root context before it calls Stop
WatcherCancelBeforeStop ==
    /\ ~exited /\ wpc = "select"
    /\ sigs > 0
    /\ sigs' = sigs - 1
    /\ cancelled' = TRUE
    /\ wpc' = "stop"
    /\ hist' = hist \o <<"Cancel", "StopCancelled">>
    /\ UNCHANGED <<cfgVars, synced, pc, delivered, svcCancelled, done,
                   exited, exitCode, startCtxCancelled, sigWhileRunning>>

\* main.go:83-85: the select takes <-sigs and calls a.Stop(rootCtx)
WatcherTakeSignal ==
    /\ ~exited /\ wpc = "select"
    /\ sigs > 0
    /\ sigs' = sigs - 1
    /\ wpc' = "stop"
    /\ hist' = Append(hist, IF cancelled THEN "StopCancelled" ELSE "StopLive")
    /\ UNCHANGED <<cfgVars, synced, pc, delivered, cancelled, svcCancelled, done,
                   exited, exitCode, startCtxCancelled, sigWhileRunning>>

\* main.go:85: a.Stop returns
StopReturns ==
    /\ ~exited /\ wpc = "stop"
    /\ wpc' = "cancel"
    /\ hist' = Append(hist, "StopRet")
    /\ UNCHANGED <<cfgVars, synced, pc, sigs, delivered, cancelled, svcCancelled,
                   done, exited, exitCode, startCtxCancelled, sigWhileRunning>>

\* the watcher also signals completion right after cancelling
WatcherCancelAndSend ==
    /\ ~exited /\ wpc = "cancel"
    /\ done < 1
    /\ cancelled' = TRUE
    /\ done' = done + 1
    /\ wpc' = "select"
    /\ hist' = hist \o <<"Cancel", "DoneWrite">>
    /\ UNCHANGED <<cfgVars, synced, pc, sigs, delivered, svcCancelled,
                   exited, exitCode, startCtxCancelled, sigWhileRunning>>

\* main.go:86, then back to the top of the for loop
WatcherCancel ==
    /\ ~exited /\ wpc = "cancel"
    /\ cancelled' = TRUE
    /\ wpc' = "select"
    /\ hist' = Append(hist, "Cancel")
    /\ UNCHANGED <<cfgVars, synced, pc, sigs, delivered, svcCancelled, done,
                   exited, exitCode, startCtxCancelled, sigWhileRunning>>

\* the watcher stops the service when it observes the cancellation
WatcherCtxDoneStops ==
    /\ ~exited /\ wpc = "select"
    /\ cancelled
    /\ wpc' = "send"
    /\ hist' = hist \o <<"StopCancelled", "StopRet">>
    /\ UNCHANGED <<cfgVars, synced, pc, sigs, delivered, cancelled, svcCancelled,
                   done, exited, exitCode, startCtxCancelled, sigWhileRunning>>

\* main.go:87-88: the select takes <-rootCtx.Done()
WatcherCtxDone ==
    /\ ~exited /\ wpc = "select"
    /\ cancelled
    /\ wpc' = "send"
    /\ UNCHANGED <<cfgVars, synced, pc, sigs, delivered, cancelled, svcCancelled,
                   done, exited, exitCode, startCtxCancelled, sigWhileRunning, hist>>

\* the watcher writes done but stays in its loop
WatcherSendNoReturn ==
    /\ ~exited /\ wpc = "send"
    /\ done < 1
    /\ done' = done + 1
    /\ wpc' = "select"
    /\ hist' = Append(hist, "DoneWrite")
    /\ UNCHANGED <<cfgVars, synced, pc, sigs, delivered, cancelled, svcCancelled,
                   exited, exitCode, startCtxCancelled, sigWhileRunning>>

\* the watcher returns on cancellation without writing done
WatcherReturnsSilently ==
    /\ ~exited /\ wpc = "send"
    /\ wpc' = "returned"
    /\ UNCHANGED <<cfgVars, synced, pc, sigs, delivered, cancelled, svcCancelled,
                   done, exited, exitCode, startCtxCancelled, sigWhileRunning, hist>>

\* main.go:89-90: done <- true (blocks while the buffer is full), return
WatcherSend ==
    /\ ~exited /\ wpc = "send"
    /\ done < 1
    /\ done' = done + 1
    /\ wpc' = "returned"
    /\ hist' = Append(hist, "DoneWrite")
    /\ UNCHANGED <<cfgVars, synced, pc, sigs, delivered, cancelled, svcCancelled,
                   exited, exitCode, startCtxCancelled, sigWhileRunning>>

(***************************************************************************)
(* The service, holder of cancelFunc from the call of Start on.            *)
(***************************************************************************)
\* main.go:96: cancelFunc is handed to the service, which may call it.
\* Cancelling is idempotent: only the service's first call is recorded, its
\* further calls change nothing.
ServiceCancel ==
    /\ ~exited /\ pc \in {"inStart", "wait", "startErr"}
    /\ ~svcCancelled
    /\ svcCancelled' = TRUE
    /\ cancelled' = TRUE
    /\ hist' = Append(hist, "SvcCancel")
    /\ UNCHANGED <<cfgVars, synced, pc, wpc, sigs, delivered, done,
                   exited, exitCode, startCtxCancelled, sigWhileRunning>>

Next ==
    \/ InitConfig
    \/ Configure
    \/ NewLogger
    \/ NewOk
    \/ NewFails
    \/ Launch
    \/ StartInvoke
    \/ StartReturnsNil
    \/ StartReturnsErr
    \/ ExitStartErr
    \/ ReadDone
    \/ DeferredSync
    \/ MainReturn
    \/ WatcherNotify
    \/ Signal
    \/ WatcherTakeSignal
    \/ StopReturns
    \/ WatcherCancel
    \/ WatcherCtxDone
    \/ WatcherSend
    \/ ServiceCancel

Spec == Init /\ [][Next]_vars

(***************************************************************************)
(* Fair scheduling: every goroutine that can take a step eventually takes  *)
(* one, Start and Stop return, and a select with several ready cases picks *)
(* each of them eventually (Go chooses among ready cases at random), hence *)
(* strong fairness for the <-rootCtx.Done() case.                          *)
(***************************************************************************)
Fairness ==
    /\ WF_vars(InitConfig) /\ WF_vars(Configure) /\ WF_vars(NewLogger)
    /\ WF_vars(NewOk) /\ WF_vars(Launch) /\ WF_vars(StartInvoke)
    /\ WF_vars(StartReturnsNil) /\ WF_vars(ExitStartErr)
    /\ WF_vars(ReadDone) /\ WF_vars(DeferredSync) /\ WF_vars(MainReturn)
    /\ WF_vars(WatcherNotify) /\ WF_vars(StopReturns) /\ WF_vars(WatcherCancel)
    /\ SF_vars(WatcherCtxDone) /\ WF_vars(WatcherSend)

\* The lifecycle does not read the configuration values: the fair
\* specification runs it for the default flags and host and port, with the
\* debug variable unset, set, and set to a value that fails to decode.
LiveInit ==
    /\ Init
    /\ flagSet = [debug |-> FALSE, server_host |-> FALSE, server_port |-> FALSE]
    /\ env.server_host = ""
    /\ env.server_port = ""

LiveSpec == LiveInit /\ [][Next]_vars /\ Fairness

(***************************************************************************)
(* Helpers over the event history.                                         *)
(***************************************************************************)
Count(ev) == Cardinality({i \in DOMAIN hist : hist[i] = ev})
Happened(ev) == \E i \in DOMAIN hist : hist[i] = ev
Before(evs, i) == \E j \in DOMAIN hist : j < i /\ hist[j] \in evs
StopCalls == Count("StopLive") + Count("StopCancelled")
IsPrefix(s, t) == Len(s) <= Len(t) /\ \A i \in DOMAIN s : s[i] = t[i]

\* The shutdown events of the history: Stop calls and returns, cancellations,
\* writes of the done channel and the process exit.
ShutdownEvents ==
    {"StopLive", "StopCancelled", "StopRet", "Cancel", "SvcCancel", "DoneWrite",
     "Exit0", "Exit1"}
Shutdown == SelectSeq(hist, LAMBDA e : e \in ShutdownEvents)

(***************************************************************************)
(* C1: a termination signal delivered while the service is Running leads   *)
(* to exactly one Stop call on a live context, then exactly one            *)
(* cancellation, then exactly one write of done, then exit with code 0.    *)
(* Stated on the executions in which Start does not fail and the service   *)
(* leaves the cancel function alone: the shutdown events so far are always *)
(* a prefix of that sequence.                                              *)
(***************************************************************************)
C1_SignalShutdownSequence ==
    (sigWhileRunning /\ ~svcCancelled /\ ~Happened("StartErr"))
        => IsPrefix(Shutdown, <<"StopLive", "StopRet", "Cancel", "DoneWrite", "Exit0">>)

(***************************************************************************)
(* C2: every Stop call is made while the root context is not cancelled.    *)
(* Stated on the executions in which only the watcher cancels.             *)
(***************************************************************************)
C2_StopOnLiveContext ==
    ~svcCancelled => ~Happened("StopCancelled")

(***************************************************************************)
(* C3: when Start returns an error, Stop is never called (before or after) *)
(* and the process exits with code 1 without reading done.                 *)
(***************************************************************************)
C3_StartErrorNoStop ==
    Happened("StartErr")
        => /\ StopCalls = 0
           /\ ~Happened("DoneRead")
           /\ exited => exitCode = 1

(***************************************************************************)
(* C4: the done channel is written at most once per process run.           *)
(***************************************************************************)
C4_DoneWrittenAtMostOnce == Count("DoneWrite") <= 1

\* the watcher has written done, every signal of the run was delivered and
\* the service cancelled as well
C4_Witness ==
    /\ Happened("DoneWrite")
    /\ delivered = MaxSignals
    /\ Happened("Cancel")
    /\ Happened("SvcCancel")

(***************************************************************************)
(* C5: Stop is invoked and returns before cancellation is issued,          *)
(* cancellation precedes the write of done, and the write of done precedes *)
(* the clean process exit; no cancellation is ever issued without a        *)
(* completed Stop before it.                                               *)
(***************************************************************************)
C5_ShutdownOrder ==
    \A i \in DOMAIN hist :
        /\ hist[i] \in {"Cancel", "SvcCancel"} => Before({"StopRet"}, i)
        /\ hist[i] = "DoneWrite" => Before({"Cancel", "SvcCancel"}, i)
        /\ hist[i] = "Exit0" => Before({"DoneWrite"}, i)

\* C5 as amended: the order holds for the cancellation issued by the watcher;
\* a cancellation issued by the service through the cancel function handed
\* to Start needs no Stop before it.
C5_WatcherShutdownOrder ==
    \A i \in DOMAIN hist :
        /\ hist[i] = "Cancel" => Before({"StopRet"}, i)
        /\ hist[i] = "DoneWrite" => Before({"Cancel", "SvcCancel"}, i)
        /\ hist[i] = "Exit0" => Before({"DoneWrite"}, i)

\* a clean exit after a signal-driven shutdown
C5_Witness ==
    /\ exited /\ exitCode = 0
    /\ Happened("Cancel")
    /\ Happened("DoneWrite")

(***************************************************************************)
(* C6: once the watcher has received a termination signal, the process     *)
(* does not exit before the Stop call has returned and done has been       *)
(* written.                                                                *)
(***************************************************************************)
C6_NoExitDuringShutdown ==
    (exited /\ StopCalls > 0)
        => /\ Count("StopRet") = StopCalls
           /\ Happened("DoneWrite")

(***************************************************************************)
(* C7: on every exit taken after the logger was constructed, the logger    *)
(* has been flushed (Sync was called) before the process exits.            *)
(***************************************************************************)
C7_SyncBeforeExit ==
    (exited /\ level # "none") => synced

(***************************************************************************)
(* C8: every key of the configuration handed to the service holds the flag *)
(* value if the flag was given, else the environment value if set, else    *)
(* the default.                                                            *)
(***************************************************************************)
Resolved ==
    [Debug |-> IF flagSet.debug THEN Debug
               ELSE IF env.debug # "" THEN DecodeBool(StrV(env.debug)).val
               ELSE DefaultDebug,
     ServerHost |-> IF flagSet.server_host THEN ServerHost
                    ELSE IF env.server_host # "" THEN env.server_host
                    ELSE DefaultServerHost,
     ServerPort |-> IF flagSet.server_port THEN ServerPort
                    ELSE IF env.server_port # "" THEN DecodeUint(StrV(env.server_port)).val
                    ELSE DefaultServerPort]

C8_FlagEnvDefaultPrecedence ==
    pc \notin {"initConfig", "configure", "configErr"} => config = Resolved

(***************************************************************************)
(* C9: the exit code is 1 whenever configuration decoding fails or Start   *)
(* returned an error, and 0 exactly when the main routine exits after      *)
(* reading done; a decoding failure exits before the logger, the watcher   *)
(* or Start exist.                                                         *)
(***************************************************************************)
DecodeFailed ==
    /\ pc \notin {"initConfig", "configure"}
    /\ Unmarshal([Debug |-> Debug, ServerHost |-> ServerHost,
                  ServerPort |-> ServerPort], viperCfg).err

C9_ExitCodes ==
    /\ DecodeFailed
          => /\ exited /\ exitCode = 1
             /\ level = "none" /\ wpc = "none" /\ hist = <<"Exit1">>
    /\ (exited /\ Happened("StartErr")) => exitCode = 1
    /\ exited => (exitCode = 0 <=> (pc = "returned" /\ Happened("DoneRead")))
    /\ pc = "returned" => exited

\* Start failed after the watcher had already written done: the exit code is 1
C9_Witness ==
    /\ exited /\ exitCode = 1
    /\ Happened("StartErr")
    /\ Happened("DoneWrite")

(***************************************************************************)
(* C10: the logger's minimum level is Debug when the resolved              *)
(* configuration's debug value is true and Info when it is false.          *)
(***************************************************************************)
C10_LevelFollowsResolvedDebug ==
    level # "none" => level = (IF config.Debug THEN "debug" ELSE "info")

(***************************************************************************)
(* C11: under fair scheduling, when Start returns without error and every  *)
(* Stop call returns, once the root context is cancelled (by the watcher   *)
(* or by the service) the watcher eventually writes done and the main      *)
(* routine eventually exits with code 0, whatever further signals arrive.  *)
(***************************************************************************)
C11_CancelLeadsToCleanExit ==
    cancelled ~> (Happened("StartErr")
                  \/ (Happened("DoneWrite") /\ exited /\ exitCode = 0))

\* a clean exit after a cancellation, with every signal of the run delivered
C11_Witness ==
    /\ cancelled /\ delivered = MaxSignals
    /\ StopCalls = MaxSignals
    /\ exited /\ exitCode = 0

(***************************************************************************)
(* C12: across any number of termination signals of one process run, Stop  *)
(* is invoked at most once.                                                *)
(***************************************************************************)
C12_StopAtMostOnce == StopCalls <= 1

(***************************************************************************)
(* C13: Stop is never invoked before Start has been invoked, and Start is  *)
(* never invoked with an already cancelled root context.                   *)
(***************************************************************************)
C13_StopAfterStart ==
    /\ ~startCtxCancelled
    /\ \A i \in DOMAIN hist :
           hist[i] \in {"StopLive", "StopCancelled"} => Before({"Start"}, i)

C15_SendNeverBlocks ==
    (wpc = "send" /\ ~exited) => (done = 0 /\ ENABLED WatcherSend)

\* the watcher has written and returned while the main routine is still in Start
C15_Witness ==
    /\ wpc = "returned"
    /\ done = 1
    /\ pc = "inStart"
    /\ ~exited

====
